---------------------------- MODULE Spec2Model ----------------------------
(***************************************************************************)
(* RiftRewind: three request handlers over one object store.               *)
(*   ingestion    src/lambda/test-riot-api/lambda_function.py              *)
(*   aggregation  src/lambda/process-matches/lambda_function.py            *)
(*   questions    src/lambda/query-rag/lambda_function.py                  *)
(* A handler invocation is one action: it reads the request and the        *)
(* collaborators' answers, and yields the response, the ordered list of    *)
(* collaborator calls it made and the new content of the store.            *)
(***************************************************************************)
EXTENDS Integers, Sequences, FiniteSets, TLC

VARIABLES
    storage,   \* the bucket: key -> object
    now,       \* the wall clock, in readings taken so far
    last,      \* the latest invocation: handler, request, response, calls
    rerun,     \* the latest invocation is an ingestion that repeated the
               \* invocation before it: the same request, met by the same
               \* collaborator answers
    xin,       \* input of the extraction (SpecExtract)
    xout       \* output of the extraction (SpecExtract)

vars == <<storage, now, last, rerun, xin, xout>>

(***************************************************************************)
(* Bounds of the model.                                                    *)
(***************************************************************************)
\* longest match-ID list the upstream returns to one ingestion request
MaxCount == 2
\* number of ingestion runs (each reads the wall clock once at most)
MaxClock == 2
\* largest kills / assists / minion counter drawn for the extraction inputs
MaxStat == 3
\* largest deaths counter drawn for the extraction inputs
MaxDeaths == 8
\* number of routing calls followed when routing is checked on its own
MaxCalls == 2

(***************************************************************************)
(* Text: a Python str is a sequence of one-character strings.              *)
(***************************************************************************)
RECURSIVE LStrip(_)
LStrip(t) == IF t = <<>> THEN <<>>
             ELSE IF Head(t) = " " THEN LStrip(Tail(t)) ELSE t

RECURSIVE RStrip(_)
RStrip(t) == IF t = <<>> THEN <<>>
             ELSE IF t[Len(t)] = " " THEN RStrip(SubSeq(t, 1, Len(t) - 1)) ELSE t

\* str.strip()
Strip(t) == RStrip(LStrip(t))

\* '#' in s
Contains(t, c) == \E i \in 1..Len(t) : t[i] = c

\* index of the first occurrence of c in t (t contains c)
FirstIndex(t, c) == CHOOSE i \in 1..Len(t) :
                        t[i] = c /\ \A j \in 1..(i - 1) : t[j] # c

\* s.split('#', 1): the text before the first '#', and all the text after it
SplitOnce(t, c) == <<SubSeq(t, 1, FirstIndex(t, c) - 1),
                     SubSeq(t, FirstIndex(t, c) + 1, Len(t))>>

(***************************************************************************)
(* Request bodies.  A field of the JSON body is absent, a string, or a     *)
(* JSON value of another type (null, a number, ...).                       *)
(***************************************************************************)
Absent == [kind |-> "absent", text |-> <<>>]
Str(t) == [kind |-> "str", text |-> t]
Other  == [kind |-> "other", text |-> <<>>]

\* body.get(name, ''): the default '' stands in for an absent field only
GetOrEmpty(f) == IF f.kind = "absent" THEN Str(<<>>) ELSE f

\* .strip() exists on str only; on anything else Python raises AttributeError
CanStrip(f) == GetOrEmpty(f).kind = "str"

P1 == <<"p", "1">>
P2 == <<"p", "2">>
Puuids == {P1, P2}

(***************************************************************************)
(* Raw match records (the upstream's JSON payload for one match).          *)
(* `missing` is the set of keys the JSON object lacks.                     *)
(***************************************************************************)
Participant(p, k, d, a, tmk, nmk, miss) ==
    [puuid |-> p, kills |-> k, deaths |-> d, assists |-> a,
     totalMinionsKilled |-> tmk, neutralMinionsKilled |-> nmk,
     win |-> (k > d), missing |-> miss]

Match(id, parts, miss) == [matchId |-> id, participants |-> parts, missing |-> miss]

\* the value stored under a key of a participant; fields whose value no
\* handler inspects are carried as an opaque token naming the field
PField(player, name) ==
    IF name \in DOMAIN player THEN player[name] ELSE <<"value", name>>

MField(match, name) ==
    IF name \in DOMAIN match THEN match[name] ELSE <<"value", name>>

\* scan of the participants for the first one whose puuid equals the queried
\* ID: its index, 0 when there is none, -1 when a participant reached by the
\* scan has no 'puuid' key (KeyError)
RECURSIVE ScanFrom(_, _, _)
ScanFrom(parts, puuid, i) ==
    IF i > Len(parts) THEN 0
    ELSE IF "puuid" \in parts[i].missing THEN -1
    ELSE IF parts[i].puuid = puuid THEN i
    ELSE ScanFrom(parts, puuid, i + 1)

FindPlayer(parts, puuid) == ScanFrom(parts, puuid, 1)

\* max(deaths, 1)
Max(a, b) == IF a >= b THEN a ELSE b

\* round(n / d, 2) in hundredths.  Python rounds the double n/d to the
\* nearest hundredth, an exact tie to the even one; for d < 40 the only ties
\* (d a multiple of 8) are exact doubles.
Round2(n, d) ==
    LET q == (100 * n) \div d
        r == (100 * n) % d
    IN  IF 2 * r < d THEN q
        ELSE IF 2 * r > d THEN q + 1
        ELSE IF q % 2 = 0 THEN q ELSE q + 1

Ratio(h) == [kind |-> "ratio", hundredths |-> h, text |-> <<>>]
KdaText(k, d, a) == [kind |-> "text", hundredths |-> 0, text |-> <<k, d, a>>]


(***************************************************************************)
(* An ordered dict is a sequence of <<key, value>> pairs.                  *)
(***************************************************************************)
DictKeys(d) == [i \in 1..Len(d) |-> d[i][1]]

DictGet(d, name) == d[CHOOSE i \in 1..Len(d) : d[i][1] = name][2]

(***************************************************************************)
(* Aggregation: the per-match extraction of process-matches.               *)
(***************************************************************************)
\* keys of the match object the extraction subscripts
AggMatchRequired ==
    {"info", "participants", "metadata", "matchId", "gameCreation",
     "gameDuration", "gameMode", "queueId"}

\* keys of the participant the extraction subscripts (teamPosition and
\* firstBloodKill are read with .get and a default)
AggPlayerRequired ==
    {"championName", "championId", "kills", "deaths", "assists",
     "totalMinionsKilled", "neutralMinionsKilled", "goldEarned",
     "totalDamageDealtToChampions", "totalDamageTaken", "visionScore", "win",
     "doubleKills", "tripleKills", "quadraKills", "pentaKills"}

\* a faulty variant of AggKda: divides by deaths + 1
AggKdaPlusOne(player) ==
    Ratio(Round2(player.kills + player.assists, player.deaths + 1))

\* round((kills + assists) / max(deaths, 1), 2)
AggKda(player) ==
    Ratio(Round2(player.kills + player.assists, Max(player.deaths, 1)))

\* totalMinionsKilled + neutralMinionsKilled
Cs(tmk, nmk) == tmk + nmk

\* the stats dict literal, in the order the code writes its keys
AggStats(match, player) ==
    << <<"matchId", MField(match, "matchId")>>,
       <<"gameCreation", MField(match, "gameCreation")>>,
       <<"gameDuration", MField(match, "gameDuration")>>,
       <<"gameMode", MField(match, "gameMode")>>,
       <<"queueId", MField(match, "queueId")>>,
       <<"championName", PField(player, "championName")>>,
       <<"championId", PField(player, "championId")>>,
       <<"position", IF "teamPosition" \in player.missing
                     THEN <<"value", "UNKNOWN">>
                     ELSE PField(player, "teamPosition")>>,
       <<"kills", PField(player, "kills")>>,
       <<"deaths", PField(player, "deaths")>>,
       <<"assists", PField(player, "assists")>>,
       <<"kdaRatio", AggKda(player)>>,
       <<"cs", Cs(player.totalMinionsKilled, player.neutralMinionsKilled)>>,
       <<"goldEarned", PField(player, "goldEarned")>>,
       <<"damageDealt", PField(player, "totalDamageDealtToChampions")>>,
       <<"damageTaken", PField(player, "totalDamageTaken")>>,
       <<"visionScore", PField(player, "visionScore")>>,
       <<"win", PField(player, "win")>>,
       <<"firstBlood", IF "firstBloodKill" \in player.missing
                       THEN FALSE
                       ELSE PField(player, "firstBloodKill")>>,
       <<"doubleKills", PField(player, "doubleKills")>>,
       <<"tripleKills", PField(player, "tripleKills")>>,
       <<"quadraKills", PField(player, "quadraKills")>>,
       <<"pentaKills", PField(player, "pentaKills")>> >>

NoStats == <<>>

\* the body of the aggregation loop for one stored record:
\*   "stats"   the record yields a stats dict
\*   "absent"  the player is not among the participants (continue)
\*   "raised"  a subscript raised KeyError (nothing in the loop catches it)
AggExtract(match, puuid) ==
    IF {"info", "participants"} \cap match.missing # {}
    THEN [kind |-> "raised", stats |-> NoStats]
    ELSE LET i == FindPlayer(match.participants, puuid)
         IN  IF i = -1 THEN [kind |-> "raised", stats |-> NoStats]
             ELSE IF i = 0 THEN [kind |-> "absent", stats |-> NoStats]
             ELSE IF (match.missing \cap AggMatchRequired) # {}
                     \/ (match.participants[i].missing \cap AggPlayerRequired) # {}
                  THEN [kind |-> "raised", stats |-> NoStats]
                  ELSE [kind |-> "stats",
                        stats |-> AggStats(match, match.participants[i])]

(***************************************************************************)
(* Ingestion: extract_player_stats and the summary entry built from it.    *)
(***************************************************************************)
IngestMatchRequired ==
    {"info", "participants", "metadata", "matchId", "gameCreation",
     "gameDuration", "gameMode", "queueId"}

IngestPlayerRequired ==
    {"championName", "championId", "teamPosition", "individualPosition",
     "kills", "deaths", "assists", "totalMinionsKilled",
     "neutralMinionsKilled", "goldEarned", "totalDamageDealtToChampions",
     "totalDamageTaken", "visionScore", "win", "item0", "item1", "item2",
     "item3", "item4", "item5", "item6", "summoner1Id", "summoner2Id",
     "perks"}

PlayerStats(match, player) ==
    << <<"matchId", MField(match, "matchId")>>,
       <<"gameCreation", MField(match, "gameCreation")>>,
       <<"gameDuration", MField(match, "gameDuration")>>,
       <<"gameMode", MField(match, "gameMode")>>,
       <<"queueId", MField(match, "queueId")>>,
       <<"championName", PField(player, "championName")>>,
       <<"championId", PField(player, "championId")>>,
       <<"teamPosition", PField(player, "teamPosition")>>,
       <<"individualPosition", PField(player, "individualPosition")>>,
       <<"kills", PField(player, "kills")>>,
       <<"deaths", PField(player, "deaths")>>,
       <<"assists", PField(player, "assists")>>,
       <<"totalMinionsKilled", PField(player, "totalMinionsKilled")>>,
       <<"neutralMinionsKilled", PField(player, "neutralMinionsKilled")>>,
       <<"goldEarned", PField(player, "goldEarned")>>,
       <<"totalDamageDealtToChampions",
         PField(player, "totalDamageDealtToChampions")>>,
       <<"totalDamageTaken", PField(player, "totalDamageTaken")>>,
       <<"visionScore", PField(player, "visionScore")>>,
       <<"win", PField(player, "win")>>,
       <<"items", <<"value", "items">> >>,
       <<"summoner1Id", PField(player, "summoner1Id")>>,
       <<"summoner2Id", PField(player, "summoner2Id")>>,
       <<"perks", <<"value", "perks">> >> >>

\* extract_player_stats: every exception is caught and becomes None
\*   "stats"  the stats dict;  "none"  None (player absent, or an exception)
extract_player_stats(match, puuid) ==
    IF {"info", "participants"} \cap match.missing # {}
    THEN [kind |-> "none", stats |-> NoStats]
    ELSE LET i == FindPlayer(match.participants, puuid)
         IN  IF i <= 0 THEN [kind |-> "none", stats |-> NoStats]
             ELSE IF (match.missing \cap IngestMatchRequired) # {}
                     \/ (match.participants[i].missing \cap IngestPlayerRequired) # {}
                  THEN [kind |-> "none", stats |-> NoStats]
                  ELSE [kind |-> "stats",
                        stats |-> PlayerStats(match, match.participants[i])]

\* the entry appended to processed_matches for one match
SummaryEntry(match_id, player_stats, match_key) ==
    [matchId |-> match_id,
     champion |-> DictGet(player_stats, "championName"),
     championId |-> DictGet(player_stats, "championId"),
     role |-> DictGet(player_stats, "teamPosition"),
     kills |-> DictGet(player_stats, "kills"),
     deaths |-> DictGet(player_stats, "deaths"),
     assists |-> DictGet(player_stats, "assists"),
     kda |-> KdaText(DictGet(player_stats, "kills"),
                     DictGet(player_stats, "deaths"),
                     DictGet(player_stats, "assists")),
     win |-> DictGet(player_stats, "win"),
     gameMode |-> DictGet(player_stats, "gameMode"),
     gameDuration |-> DictGet(player_stats, "gameDuration"),
     cs |-> Cs(DictGet(player_stats, "totalMinionsKilled"),
               DictGet(player_stats, "neutralMinionsKilled")),
     s3Key |-> match_key]

(***************************************************************************)
(* The extraction as a function of its inputs: one raw match record and    *)
(* the queried stable ID, applied at the two places that extract.          *)
(***************************************************************************)
NoInput == [match |-> Match(0, <<>>, {}), puuid |-> <<>>]
NoOutput == [site |-> "none", kind |-> "none", stats |-> NoStats, summary |-> <<>>]

Opponent == Participant(P2, 1, 1, 1, 1, 1, {})

\* a second participant carrying the same puuid with other numbers
Decoy(me) == Participant(me.puuid, me.kills + 1, me.deaths + 1, me.assists + 1,
                         me.totalMinionsKilled + 1, me.neutralMinionsKilled + 1, {})

PlayerInputs ==
    {Participant(P1, k, d, a, tmk, nmk, miss) :
        k \in 0..MaxStat, d \in 0..MaxDeaths, a \in 0..MaxStat,
        tmk \in {0, MaxStat}, nmk \in {0, 1},
        miss \in {{}, {"kills"}, {"perks"}, {"pentaKills"}}}

ParticipantLists ==
    UNION {{<<me>>, <<Opponent, me>>, <<me, Decoy(me)>>} : me \in PlayerInputs}
    \cup {<<Opponent>>, <<>>,
          <<Participant(P2, 1, 1, 1, 1, 1, {"puuid"}),
            Participant(P1, 1, 1, 1, 1, 1, {})>>}

ExtractInputs ==
    {[match |-> Match(1, parts, miss), puuid |-> P1] :
        parts \in ParticipantLists, miss \in {{}, {"metadata"}}}

InitExtract ==
    /\ storage = <<>>
    /\ now = 0
    /\ last = [handler |-> "none"]
    /\ rerun = FALSE
    /\ xin \in ExtractInputs
    /\ xout = NoOutput

\* process-matches: the loop body applied to the record
ExtractForAggregation ==
    /\ xout.site = "none"
    /\ LET r == AggExtract(xin.match, xin.puuid)
       IN  xout' = [site |-> "aggregation", kind |-> r.kind,
                    stats |-> r.stats, summary |-> <<>>]
    /\ UNCHANGED <<storage, now, last, rerun, xin>>

\* test-riot-api: extract_player_stats, then the summary entry
ExtractForIngestion ==
    /\ xout.site = "none"
    /\ LET r == extract_player_stats(xin.match, xin.puuid)
       IN  xout' = [site |-> "ingestion", kind |-> r.kind, stats |-> r.stats,
                    summary |-> IF r.kind = "stats"
                                THEN <<SummaryEntry(xin.match.matchId, r.stats,
                                                    <<"key">>)>>
                                ELSE <<>>]
    /\ UNCHANGED <<storage, now, last, rerun, xin>>

NextExtract == ExtractForAggregation \/ ExtractForIngestion

SpecExtract == InitExtract /\ [][NextExtract]_vars

\* the queried ID is among the participants of the input record
XinHasPlayer ==
    \E i \in 1..Len(xin.match.participants) :
        xin.match.participants[i].puuid = xin.puuid

\* the first participant of the input record that carries the queried ID
XinPlayer ==
    xin.match.participants[
        CHOOSE i \in 1..Len(xin.match.participants) :
            /\ xin.match.participants[i].puuid = xin.puuid
            /\ \A j \in 1..(i - 1) : xin.match.participants[j].puuid # xin.puuid]

\* the input record is valid: no key is missing anywhere in it
XinValid ==
    /\ xin.match.missing = {}
    /\ \A i \in 1..Len(xin.match.participants) :
           xin.match.participants[i].missing = {}

\* h hundredths is (kills+assists)/max(deaths,1) rounded to 2 decimals: no
\* other multiple of 0.01 is nearer to the quotient
IsKdaOf(h, player) ==
    LET n == player.kills + player.assists
        d == IF player.deaths = 0 THEN 1 ELSE player.deaths
    IN  /\ 2 * (100 * n - h * d) <= d
        /\ 2 * (h * d - 100 * n) <= d

\* C2 (as stated): at both extraction sites, a valid record containing the
\* queried ID yields a record whose kda is the rounded ratio
\* (kills+assists)/max(deaths,1) and whose cs is the sum of the two minion
\* counters of the first participant carrying the ID.
C2_AsStated ==
    (xout.site # "none" /\ XinValid /\ XinHasPlayer) =>
        /\ xout.kind = "stats"
        /\ LET kda == IF xout.site = "aggregation"
                      THEN DictGet(xout.stats, "kdaRatio")
                      ELSE xout.summary[1].kda
               cs  == IF xout.site = "aggregation"
                      THEN DictGet(xout.stats, "cs")
                      ELSE xout.summary[1].cs
           IN  /\ kda.kind = "ratio"
               /\ IsKdaOf(kda.hundredths, XinPlayer)
               /\ cs = XinPlayer.totalMinionsKilled + XinPlayer.neutralMinionsKilled

\* C2 (amended): for a valid record containing the queried ID, the
\* aggregation's extraction yields kdaRatio = (kills+assists)/max(deaths,1)
\* rounded to 2 decimals (deaths = 0 divides by 1); the ingestion's summary
\* entry carries kda as the text kills/deaths/assists, not the ratio; at both
\* sites cs = totalMinionsKilled + neutralMinionsKilled; all numbers are those
\* of the first participant carrying the ID.
C2_Extraction ==
    (xout.site # "none" /\ XinValid /\ XinHasPlayer) =>
        /\ xout.kind = "stats"
        /\ xout.site = "aggregation" =>
              /\ DictGet(xout.stats, "kdaRatio").kind = "ratio"
              /\ IsKdaOf(DictGet(xout.stats, "kdaRatio").hundredths, XinPlayer)
              /\ DictGet(xout.stats, "cs") =
                    XinPlayer.totalMinionsKilled + XinPlayer.neutralMinionsKilled
        /\ xout.site = "ingestion" =>
              /\ xout.summary[1].kda.kind = "text"
              /\ xout.summary[1].kda.text =
                    <<XinPlayer.kills, XinPlayer.deaths, XinPlayer.assists>>
              /\ xout.summary[1].cs =
                    XinPlayer.totalMinionsKilled + XinPlayer.neutralMinionsKilled

\* C2 witness: the aggregation extracted a valid record in which the player
\* died 0 times, behind an opponent, and the ratio has been divided by 1
C2_Witness ==
    /\ xout.site = "aggregation"
    /\ xout.kind = "stats"
    /\ XinValid
    /\ Len(xin.match.participants) = 2
    /\ xin.match.participants[1].puuid # xin.puuid
    /\ XinPlayer.deaths = 0
    /\ XinPlayer.kills + XinPlayer.assists > 0
    /\ DictGet(xout.stats, "kdaRatio").hundredths =
          100 * (XinPlayer.kills + XinPlayer.assists)

(***************************************************************************)
(* The object store: a map from keys to objects.  A key stands for a path: *)
(*   profile  users/<puuid>/profile.json                                   *)
(*   match    users/<puuid>/matches/<id>.json                              *)
(*   csv      users/<puuid>/processed/match_stats.csv                      *)
(***************************************************************************)
ProfileKey(puuid) == [puuid |-> puuid, kind |-> "profile", id |-> 0]
MatchKey(puuid, match_id) == [puuid |-> puuid, kind |-> "match", id |-> match_id]
CsvKey(puuid) == [puuid |-> puuid, kind |-> "csv", id |-> 0]

EmptyStore == <<>>

\* a faulty variant of PutObject: never replaces an existing object
PutIfAbsent(st, key, obj) ==
    IF key \in DOMAIN st THEN st
    ELSE [k \in DOMAIN st \cup {key} |-> IF k = key THEN obj ELSE st[k]]

\* s3.put_object: creates the object or replaces it whole (last write wins)
PutObject(st, key, obj) ==
    [k \in DOMAIN st \cup {key} |-> IF k = key THEN obj ELSE st[k]]

JsonObject(data) == [contentType |-> "application/json", body |-> data]
CsvObject(text) == [contentType |-> "text/csv", body |-> text]

(***************************************************************************)
(* Collaborator calls, in the order a handler makes them.                  *)
(***************************************************************************)
\* status: the HTTP status of an upstream call; for the other collaborators
\* 200 when the call returned and 0 when it raised (404: NoSuchKey).
\* reply: the payload of the answer where the handler reads one.
CallR(svc, op, arg, status, reply) ==
    [svc |-> svc, op |-> op, arg |-> arg, status |-> status, reply |-> reply]

Call(svc, op, arg, status) == CallR(svc, op, arg, status, <<>>)

Response(code, body) == [statusCode |-> code, body |-> body]

\* what one invocation leaves behind
Outcome(resp, st, calls, t) ==
    [response |-> resp, storage |-> st, calls |-> calls, now |-> t]

\* the handlers' outermost except clause
\* 'error' is the message, followed by the upstream status where the message
\* quotes one
InternalError(detail) ==
    Response(500, [error |-> <<"Internal server error">>, detail |-> detail])

(***************************************************************************)
(* Region routing.                                                         *)
(***************************************************************************)
get_account_routing(region) ==
    CASE region \in {"na1", "br1", "la1", "la2", "oc1"} -> "americas"
      [] region \in {"euw1", "eun1", "tr1", "ru"} -> "europe"
      [] region \in {"kr", "jp1"} -> "asia"
      [] region \in {"ph2", "sg2", "th2", "tw2", "vn2"} -> "sea"
      [] OTHER -> "americas"

\* a faulty variant of get_match_routing: an unknown region is routed as oc1
MatchRoutingDefaultSea(region) ==
    CASE region \in {"na1", "br1", "la1", "la2"} -> "americas"
      [] region \in {"euw1", "eun1", "tr1", "ru"} -> "europe"
      [] region \in {"kr", "jp1"} -> "asia"
      [] OTHER -> "sea"

get_match_routing(region) ==
    CASE region \in {"na1", "br1", "la1", "la2"} -> "americas"
      [] region \in {"euw1", "eun1", "tr1", "ru"} -> "europe"
      [] region \in {"kr", "jp1"} -> "asia"
      [] region \in {"oc1", "ph2", "sg2", "th2", "tw2", "vn2"} -> "sea"
      [] OTHER -> "americas"

(***************************************************************************)
(* The upstream: what the remote API holds.  A finished match never        *)
(* changes, so the record behind a match ID is fixed.                      *)
(***************************************************************************)
MatchIds == {1, 2, 3, 4}

\* 1 and 3: P1 played and the record is whole; 2: P1 is not among the
\* participants; 4: P1 is present but the participant lacks 'kills'
UpstreamMatch(m) ==
    CASE m = 1 -> Match(1, <<Participant(P2, 1, 3, 1, 2, 0, {}),
                             Participant(P1, 2, 0, 1, 3, 1, {})>>, {})
      [] m = 2 -> Match(2, <<Participant(P2, 3, 2, 2, 1, 2, {})>>, {})
      [] m = 3 -> Match(3, <<Participant(P1, 1, 3, 1, 1, 1, {})>>, {})
      [] OTHER -> Match(4, <<Participant(P1, 0, 1, 0, 0, 0, {"kills"}),
                             Participant(P2, 3, 2, 2, 1, 2, {})>>, {})

\* the account directory: Riot ID -> stable ID (<<>>: no such account)
UpstreamAccount(game_name, tag_line) ==
    IF game_name = <<"F">> /\ tag_line = <<"N">> THEN P1 ELSE <<>>

\* urllib.parse.quote on one character
QuoteChar(c) == IF c = " " THEN <<"%", "2", "0">>
                ELSE IF c = "#" THEN <<"%", "2", "3">>
                ELSE <<c>>

RECURSIVE Quote(_)
Quote(t) == IF t = <<>> THEN <<>> ELSE QuoteChar(Head(t)) \o Quote(Tail(t))

(***************************************************************************)
(* Ingestion handler (test-riot-api).                                      *)
(***************************************************************************)
\* body.get('region', 'oc1') and body.get('count', 5)
RegionOf(body) == IF body.region = "" THEN "oc1" ELSE body.region

Url(host, api, arg) == [host |-> host, api |-> api, arg |-> arg]

\* the storage writes made so far in the invocation
PutsIn(calls) == Cardinality({i \in 1..Len(calls) : calls[i].svc = "s3"})

\* the next s3.put_object raises (the storage is unavailable from then on)
PutRaises(env, calls) == env.s3 = PutsIn(calls) + 1

\* a faulty variant of AfterFailedFetch: the loop is left (break)
LeaveLoop(i, match_ids) == Len(match_ids) + 1

\* a faulty variant of AfterFailedFetch: the ID after a failed one is passed over
PassOverNext(i, match_ids) == i + 2

\* `continue` after a failed fetch: the loop goes on with the next ID
AfterFailedFetch(i, match_ids) == i + 1

\* the for loop over match_ids, from position i on.  `raised` is set when a
\* storage write raised: the loop is left through the outer except clause.
RECURSIVE FetchLoop(_, _, _, _, _, _, _, _)
FetchLoop(i, match_ids, puuid, match_routing, env, st, calls, processed) ==
    IF i > Len(match_ids)
    THEN [storage |-> st, calls |-> calls, processed |-> processed, raised |-> FALSE]
    ELSE
      LET match_id == match_ids[i]
          status == env.fetch[match_id]
          fetched == Append(calls, Call("riot", "GET",
                                        Url(match_routing, "match", match_id), status))
          match_key == MatchKey(puuid, match_id)
      IN  IF status # 200
          THEN FetchLoop(AfterFailedFetch(i, match_ids), match_ids, puuid,
                         match_routing, env, st, fetched, processed)
          ELSE IF PutRaises(env, fetched)
          THEN [storage |-> st,
                calls |-> Append(fetched, Call("s3", "put_object", match_key, 0)),
                processed |-> processed, raised |-> TRUE]
          ELSE
            LET match_data == UpstreamMatch(match_id)
                player_stats == extract_player_stats(match_data, puuid)
            IN  FetchLoop(i + 1, match_ids, puuid, match_routing, env,
                          PutObject(st, match_key, JsonObject(match_data)),
                          Append(fetched, Call("s3", "put_object", match_key, 200)),
                          IF player_stats.kind = "stats"
                          THEN Append(processed,
                                      SummaryEntry(match_id, player_stats.stats,
                                                   match_key))
                          ELSE processed)

\* steps 3 and 4: the match list, then the loop, then the 200 response
IngestMatches(st, t, region, puuid, account_data, env, calls) ==
    LET match_routing == get_match_routing(region)
        listed == Append(calls, CallR("riot", "GET",
                                      Url(match_routing, "matchlist", puuid), env.list,
                                      IF env.list = 200 THEN env.ids ELSE <<>>))
    IN  IF env.list # 200
        THEN Outcome(Response(env.list,
                              [error |-> <<"Failed to fetch match list", env.list>>]),
                     st, listed, t)
        ELSE IF env.ids = <<>>
        THEN Outcome(Response(404, [error |-> <<"No matches found for this summoner">>]),
                     st, listed, t)
        ELSE
          LET loop == FetchLoop(1, env.ids, puuid, match_routing, env, st,
                                listed, <<>>)
          IN  IF loop.raised
              THEN Outcome(InternalError("storage"), loop.storage, loop.calls, t)
              ELSE Outcome(
                     Response(200,
                       [summoner |-> [name |-> <<account_data.gameName,
                                                 account_data.tagLine>>,
                                      level |-> <<"value", "summonerLevel">>,
                                      puuid |-> puuid,
                                      profileS3Key |-> ProfileKey(puuid)],
                        matchesProcessed |-> Len(loop.processed),
                        matches |-> loop.processed,
                        region |-> region]),
                     loop.storage, loop.calls, t)

\* step 2: the summoner lookup and the profile write
IngestSummoner(st, t, region, account_data, env, calls) ==
    LET puuid == account_data.puuid
        looked == Append(calls, Call("riot", "GET",
                                     Url(region, "summoner", puuid), env.summoner))
        profile_data == [puuid |-> puuid,
                         gameName |-> account_data.gameName,
                         tagLine |-> account_data.tagLine,
                         summonerLevel |-> <<"value", "summonerLevel">>,
                         region |-> region,
                         lastUpdated |-> t + 1]
        profile_key == ProfileKey(puuid)
    IN  IF env.summoner # 200
        THEN Outcome(Response(500, [error |-> <<"Failed to fetch summoner data">>,
                                    detail |-> <<"body", "summoner", env.summoner>>]),
                     st, looked, t)
        ELSE IF PutRaises(env, looked)
        THEN Outcome(InternalError("storage"), st,
                     Append(looked, Call("s3", "put_object", profile_key, 0)), t + 1)
        ELSE IngestMatches(PutObject(st, profile_key, JsonObject(profile_data)),
                           t + 1, region, puuid, account_data, env,
                           Append(looked, Call("s3", "put_object", profile_key, 200)))

\* step 1: the account lookup
IngestAccount(st, t, region, summoner_name, env, calls) ==
    LET parts == SplitOnce(summoner_name, "#")
        game_name == Quote(parts[1])
        tag_line == Quote(parts[2])
        account_routing == get_account_routing(region)
        looked == Append(calls, Call("riot", "GET",
                                     Url(account_routing, "account",
                                         <<game_name, tag_line>>), env.account))
    IN  IF env.account = 404
        THEN Outcome(Response(404, [error |-> <<"Riot ID not found. Check spelling and region.">>]),
                     st, looked, t)
        ELSE IF env.account = 403
        THEN Outcome(Response(403, [error |-> <<"API key is invalid or expired">>,
                                    hint |-> "Regenerate your Riot API key"]),
                     st, looked, t)
        ELSE IF env.account # 200
        THEN Outcome(Response(env.account,
                              [error |-> <<"Failed to fetch account", env.account>>,
                               detail |-> <<"body", "account", env.account>>]),
                     st, looked, t)
        ELSE IngestSummoner(st, t, region,
                            [puuid |-> UpstreamAccount(game_name, tag_line),
                             gameName |-> game_name, tagLine |-> tag_line],
                            env, looked)

\* lambda_handler of test-riot-api
Ingest(st, t, req, env) ==
    IF req.kind # "object" \/ ~CanStrip(req.body.summonerName)
    THEN Outcome(InternalError("request"), st, <<>>, t)
    ELSE
      LET summoner_name == Strip(GetOrEmpty(req.body.summonerName).text)
          region == RegionOf(req.body)
      IN  IF summoner_name = <<>>
          THEN Outcome(Response(400, [error |-> <<"Summoner name is required">>]),
                       st, <<>>, t)
          ELSE IF ~Contains(summoner_name, "#")
          THEN Outcome(Response(400, [error |-> <<"Please use Riot ID format: GameName#TAG">>]),
                       st, <<>>, t)
          ELSE IF ~env.ssm
          THEN Outcome(Response(500, [error |-> <<"Failed to retrieve API key">>]),
                       st, <<Call("ssm", "get_parameter", "riot-api-key", 0)>>, t)
          ELSE IngestAccount(st, t, region, summoner_name, env,
                             <<Call("ssm", "get_parameter", "riot-api-key", 200)>>)

(***************************************************************************)
(* Aggregation handler (process-matches).                                  *)
(***************************************************************************)
\* the IDs of S in ascending order
RECURSIVE Ascending(_)
Ascending(S) ==
    IF S = {} THEN <<>>
    ELSE LET lo == CHOOSE x \in S : \A y \in S : x <= y
         IN  <<lo>> \o Ascending(S \ {lo})

\* s3.list_objects_v2(Prefix = users/<puuid>/matches/): the keys under the
\* prefix, in key order
ListObjects(st, puuid) ==
    LET ids == Ascending({k.id : k \in {x \in DOMAIN st :
                                           x.kind = "match" /\ x.puuid = puuid}})
    IN  [n \in 1..Len(ids) |-> MatchKey(puuid, ids[n])]

\* the for loop over response['Contents'], from position i on.  `raised`:
\* a read or a subscript raised and the loop is left through the outer
\* except clause.
RECURSIVE AggLoop(_, _, _, _, _, _, _)
AggLoop(i, keys, puuid, env, st, calls, match_stats) ==
    IF i > Len(keys)
    THEN [calls |-> calls, match_stats |-> match_stats, raised |-> FALSE]
    ELSE IF env = "get"
    THEN [calls |-> Append(calls, Call("s3", "get_object", keys[i], 0)),
          match_stats |-> match_stats, raised |-> TRUE]
    ELSE
      LET read == Append(calls, Call("s3", "get_object", keys[i], 200))
          r == AggExtract(st[keys[i]].body, puuid)
      IN  IF r.kind = "raised"
          THEN [calls |-> read, match_stats |-> match_stats, raised |-> TRUE]
          ELSE AggLoop(i + 1, keys, puuid, env, st, read,
                       IF r.kind = "stats" THEN Append(match_stats, r.stats)
                       ELSE match_stats)

\* csv.DictWriter: the header is the key list of the first dict; one line
\* per dict, its values in header order
CsvText(match_stats) ==
    LET fieldnames == DictKeys(match_stats[1])
    IN  [header |-> fieldnames,
         rows |-> [n \in 1..Len(match_stats) |->
                      [j \in 1..Len(fieldnames) |->
                          DictGet(match_stats[n], fieldnames[j])]]]

\* lambda_handler of process-matches
Aggregate(st, t, req, env) ==
    IF req.kind # "object" \/ ~CanStrip(req.body.puuid)
    THEN Outcome(InternalError("request"), st, <<>>, t)
    ELSE
      LET puuid == Strip(GetOrEmpty(req.body.puuid).text)
          output_key == CsvKey(puuid)
      IN  IF puuid = <<>>
          THEN Outcome(Response(400, [error |-> <<"PUUID is required">>]), st, <<>>, t)
          ELSE IF env = "list"
          THEN Outcome(Response(500, [error |-> <<"Failed to access S3 bucket">>]),
                       st, <<Call("s3", "list_objects_v2", puuid, 0)>>, t)
          ELSE IF ListObjects(st, puuid) = <<>>
          THEN Outcome(Response(404, [error |-> <<"No matches found for this user. Search for a summoner first!">>]),
                       st, <<Call("s3", "list_objects_v2", puuid, 200)>>, t)
          ELSE
            LET loop == AggLoop(1, ListObjects(st, puuid), puuid, env, st,
                                <<Call("s3", "list_objects_v2", puuid, 200)>>, <<>>)
            IN  IF loop.raised
                THEN Outcome(InternalError("aggregation"), st, loop.calls, t)
                ELSE IF loop.match_stats = <<>>
                THEN Outcome(Response(404, [error |-> <<"No valid match data found">>]),
                             st, loop.calls, t)
                ELSE IF env = "put"
                THEN Outcome(InternalError("storage"), st,
                             Append(loop.calls, Call("s3", "put_object", output_key, 0)),
                             t)
                ELSE Outcome(
                       Response(200, [matchesProcessed |-> Len(loop.match_stats),
                                      stats |-> loop.match_stats,
                                      s3Location |-> output_key,
                                      message |-> <<"Successfully processed",
                                                    Len(loop.match_stats)>>]),
                       PutObject(st, output_key, CsvObject(CsvText(loop.match_stats))),
                       Append(loop.calls, Call("s3", "put_object", output_key, 200)),
                       t)

(***************************************************************************)
(* Question-answering handler (query-rag).                                 *)
(***************************************************************************)
\* the except clause's rewriting of the exception text
BedrockDetail(failure) ==
    IF failure = "AccessDeniedException" THEN "Bedrock access denied"
    ELSE IF failure = "ModelNotFound" THEN "Claude 3 Haiku model not found"
    ELSE failure

\* a faulty variant of AggregateMissing: a missing aggregate file is read as empty
AggregateMissingNever(st, csv_key) == FALSE

\* s3.get_object raises NoSuchKey
AggregateMissing(st, csv_key) == csv_key \notin DOMAIN st

\* lambda_handler of query-rag
Query(st, t, req, env) ==
    IF req.kind # "object" \/ ~CanStrip(req.body.puuid)
       \/ ~CanStrip(req.body.question)
    THEN Outcome(InternalError("request"), st, <<>>, t)
    ELSE
      LET puuid == Strip(GetOrEmpty(req.body.puuid).text)
          question == Strip(GetOrEmpty(req.body.question).text)
          csv_key == CsvKey(puuid)
      IN  IF puuid = <<>> \/ question = <<>>
          THEN Outcome(Response(400, [error |-> <<"PUUID and question are required">>]),
                       st, <<>>, t)
          ELSE IF ~env.s3
          THEN Outcome(InternalError("storage"), st,
                       <<Call("s3", "get_object", csv_key, 0)>>, t)
          ELSE IF AggregateMissing(st, csv_key)
          THEN Outcome(Response(404, [error |-> <<"No processed data found. Please click Process Stats first!">>,
                                      hint |-> "Search for a summoner and process their stats before asking questions."]),
                       st, <<Call("s3", "get_object", csv_key, 404)>>, t)
          ELSE
            LET csv_content == IF csv_key \in DOMAIN st THEN st[csv_key].body
                               ELSE <<>>
                read == <<Call("s3", "get_object", csv_key, 200)>>
                prompt == [csv |-> csv_content, question |-> question]
            IN  IF env.bedrock # "ok"
                THEN Outcome(InternalError(BedrockDetail(env.bedrock)), st,
                             Append(read, Call("bedrock", "invoke_model", prompt, 0)),
                             t)
                ELSE Outcome(Response(200, [question |-> question,
                                            answer |-> "answer",
                                            dataSource |-> csv_key]),
                             st,
                             Append(read, Call("bedrock", "invoke_model", prompt, 200)),
                             t)

(***************************************************************************)
(* Requests and collaborator answers an invocation can meet.               *)
(***************************************************************************)
Request(kind, body) == [kind |-> kind, body |-> body]

IngestBody(name) == [summonerName |-> name, region |-> ""]

SummonerNames ==
    {Absent, Other, Str(<<" ", " ">>), Str(<<"F", "o">>),
     Str(<<" ", "F", "#", "N">>), Str(<<"X", "#", "Y">>)}

IngestRequests ==
    {Request("malformed", IngestBody(Absent))}
    \cup {Request("object", IngestBody(n)) : n \in SummonerNames}

AggBody(puuid) == [puuid |-> puuid]

AggRequests ==
    {Request("malformed", AggBody(Absent))}
    \cup {Request("object", AggBody(p)) :
            p \in {Absent, Other, Str(<<" ">>), Str(<<" ">> \o P1), Str(P2)}}

QueryBody(puuid, question) == [puuid |-> puuid, question |-> question]

Why == <<"w", "h", "y">>

QueryRequests ==
    {Request("malformed", QueryBody(Absent, Absent))}
    \cup {Request("object", QueryBody(p, Str(Why))) :
            p \in {Other, Str(<<>>), Str(P1), Str(P2)}}
    \cup {Request("object", QueryBody(Str(P1), q)) :
            q \in {Absent, Other, Str(<<" ">>)}}
    \cup {Request("object", QueryBody(Str(<<" ">>), Other))}

\* the match-ID lists the upstream returns: distinct IDs, at most MaxCount
IdLists ==
    {l \in UNION {[1..n -> MatchIds] : n \in 1..MaxCount} :
        \A i, j \in 1..Len(l) : i # j => l[i] # l[j]}

\* the statuses of the match fetches of one list (200 or 404 for each ID of
\* the list)
FetchAnswers(l) ==
    {g \in [MatchIds -> {200, 404}] :
        \A m \in MatchIds : (\A i \in 1..Len(l) : l[i] # m) => g[m] = 200}

\* every call answered with success and an empty match list; s3 = 0: no
\* storage write raises, s3 = n: the n-th write of the invocation raises
CalmEnv ==
    [ssm |-> TRUE, account |-> 200, summoner |-> 200, list |-> 200,
     ids |-> <<>>, fetch |-> [m \in MatchIds |-> 200], s3 |-> 0]

\* the answers one ingestion can meet; the answer to a call that is never
\* made is left as in CalmEnv
AccountFailures == {[CalmEnv EXCEPT !.account = c] : c \in {403, 404, 429}}

IngestEnvs ==
    {CalmEnv, [CalmEnv EXCEPT !.s3 = 1]}
    \cup {[CalmEnv EXCEPT !.summoner = c] : c \in {403, 404, 503}}
    \cup {[CalmEnv EXCEPT !.list = c] : c \in {403, 404, 503}}
    \cup UNION {{[CalmEnv EXCEPT !.ids = l, !.fetch = f] : f \in FetchAnswers(l)} :
                  l \in IdLists}
    \cup {[CalmEnv EXCEPT !.ids = l, !.s3 = 2] : l \in IdLists}

\* the request passes the handler's validation
IngestPasses(req) ==
    /\ req.kind = "object"
    /\ req.body.summonerName.kind = "str"
    /\ Contains(Strip(req.body.summonerName.text), "#")

\* the request names an account the upstream holds
Resolves(req) ==
    LET name == Strip(req.body.summonerName.text)
    IN  UpstreamAccount(Quote(SplitOnce(name, "#")[1]),
                        Quote(SplitOnce(name, "#")[2])) # <<>>

\* the answers drawn for one request: none matters before validation has
\* passed, and the upstream answers 200 to the account lookup of a held
\* account only
IngestEnvsFor(req) ==
    IF ~IngestPasses(req) THEN {CalmEnv}
    ELSE {[CalmEnv EXCEPT !.ssm = FALSE]} \cup AccountFailures
         \cup (IF Resolves(req) THEN IngestEnvs ELSE {})

\* which storage call of an aggregation raises ("up": none)
AggEnvs == {"up", "list", "get", "put"}

AggEnvsFor(req) ==
    IF req.kind = "object" /\ req.body.puuid.kind = "str"
       /\ Strip(req.body.puuid.text) # <<>>
    THEN AggEnvs ELSE {"up"}

QueryEnvs ==
    {[s3 |-> TRUE, bedrock |-> b] :
        b \in {"ok", "AccessDeniedException", "ModelNotFound", "ThrottlingException"}}
    \cup {[s3 |-> FALSE, bedrock |-> "ok"]}

QueryEnvsFor(req) ==
    IF req.kind = "object" /\ req.body.puuid.kind = "str"
       /\ req.body.question.kind = "str"
       /\ Strip(req.body.puuid.text) # <<>> /\ Strip(req.body.question.text) # <<>>
    THEN QueryEnvs ELSE {[s3 |-> TRUE, bedrock |-> "ok"]}

(***************************************************************************)
(* The state machine: one action per handler invocation.                   *)
(***************************************************************************)
NoInvocation == [handler |-> "none"]

Invocation(handler, req, o) ==
    [handler |-> handler, request |-> req,
     response |-> o.response, calls |-> o.calls]

\* the ingestion being made repeats the latest invocation
Repeats(req, o) ==
    /\ last.handler = "ingestion"
    /\ last.request = req
    /\ last.calls = o.calls

Init ==
    /\ storage = EmptyStore
    /\ now = 0
    /\ last = NoInvocation
    /\ rerun = FALSE
    /\ xin = NoInput
    /\ xout = NoOutput

InvokeIngest ==
    /\ now < MaxClock
    /\ \E req \in IngestRequests :
         \E env \in IngestEnvsFor(req) :
           \E o \in {Ingest(storage, now, req, env)} :
              /\ storage' = o.storage
              /\ now' = o.now
              /\ last' = Invocation("ingestion", req, o)
              /\ rerun' = Repeats(req, o)
    /\ UNCHANGED <<xin, xout>>

InvokeAggregate ==
    /\ \E req \in AggRequests :
         \E env \in AggEnvsFor(req) :
           \E o \in {Aggregate(storage, now, req, env)} :
              /\ storage' = o.storage
              /\ now' = o.now
              /\ last' = Invocation("aggregation", req, o)
              /\ rerun' = FALSE
    /\ UNCHANGED <<xin, xout>>

InvokeQuery ==
    /\ \E req \in QueryRequests :
         \E env \in QueryEnvsFor(req) :
           \E o \in {Query(storage, now, req, env)} :
              /\ storage' = o.storage
              /\ now' = o.now
              /\ last' = Invocation("query", req, o)
              /\ rerun' = FALSE
    /\ UNCHANGED <<xin, xout>>

Next == InvokeIngest \/ InvokeAggregate \/ InvokeQuery

Spec == Init /\ [][Next]_vars

(***************************************************************************)
(* Vocabulary of the properties.                                           *)
(***************************************************************************)
Ran(handler) == last.handler = handler

\* no collaborator call of the invocation raised
NoFault(calls) == \A i \in 1..Len(calls) : calls[i].status # 0

\* the positions of the storage writes among the calls
PutsAt(calls) ==
    {i \in 1..Len(calls) : calls[i].svc = "s3" /\ calls[i].op = "put_object"}

\* a request field is empty after trimming (an absent field reads as '')
Blank(f) ==
    \/ f.kind = "absent"
    \/ f.kind = "str" /\ \A i \in 1..Len(f.text) : f.text[i] = " "

\* a request field is text that trims to exactly t
TrimsTo(f, t) ==
    /\ f.kind = "str"
    /\ \E a, b \in 0..Len(f.text) :
          /\ a + Len(t) + b = Len(f.text)
          /\ \A i \in 1..a : f.text[i] = " "
          /\ \A i \in 1..Len(t) : f.text[a + i] = t[i]
          /\ \A i \in 1..b : f.text[a + Len(t) + i] = " "

\* the IDs of the match objects stored for p
StoredIds(st, p) ==
    {k.id : k \in {x \in DOMAIN st : x.kind = "match" /\ x.puuid = p}}

StoredMatch(st, p, id) == st[[puuid |-> p, kind |-> "match", id |-> id]].body

\* p is among the participants of the record
Includes(match, p) ==
    \E i \in 1..Len(match.participants) : match.participants[i].puuid = p

\* the first participant of the record that carries p
PlayerOf(match, p) ==
    match.participants[
        CHOOSE i \in 1..Len(match.participants) :
            /\ match.participants[i].puuid = p
            /\ \A j \in 1..(i - 1) : match.participants[j].puuid # p]

\* p is among the participants and no key read by the extraction is missing
Whole(match, p, required) ==
    /\ Includes(match, p)
    /\ match.missing = {}
    /\ PlayerOf(match, p).missing \cap required = {}

\* p is among the participants but a key read by the extraction is missing
Broken(match, p, required) ==
    /\ Includes(match, p)
    /\ (match.missing # {} \/ PlayerOf(match, p).missing \cap required # {})

\* the latest invocation is an aggregation for p that passed validation and
\* met no storage failure
AggRanFor(p) ==
    /\ Ran("aggregation")
    /\ last.request.kind = "object"
    /\ TrimsTo(last.request.body.puuid, p)
    /\ NoFault(last.calls)

(***************************************************************************)
(* C1                                                                      *)
(***************************************************************************)
\* the latest request fails the validation C1 speaks of
FailsValidation ==
    /\ ~Ran("none")
    /\ last.request.kind = "object"
    /\ \/ /\ Ran("ingestion")
          /\ \/ Blank(last.request.body.summonerName)
             \/ /\ last.request.body.summonerName.kind = "str"
                /\ ~Contains(last.request.body.summonerName.text, "#")
       \/ Ran("aggregation") /\ Blank(last.request.body.puuid)
       \/ /\ Ran("query")
          /\ (Blank(last.request.body.puuid) \/ Blank(last.request.body.question))

\* C1 (as stated): a request with a required field empty after trimming, or
\* an ingestion name without '#', is answered 400, and the invocation has
\* called no collaborator and written nothing.
C1_AsStated ==
    FailsValidation =>
        /\ last.response.statusCode = 400
        /\ last.calls = <<>>

(***************************************************************************)
(* C3, C4, C5: aggregation                                                 *)
(***************************************************************************)
\* C3 (as stated): an aggregation for p over N >= 1 stored records whose
\* participants include p answers 200 and leaves a table of exactly N rows, one
\* per such record in listing order, under the header of the first extracted
\* record's field names; the records without p add no row and fail nothing.
C3_AsStated ==
    \A p \in Puuids :
        LET with == {id \in StoredIds(storage, p) :
                        Includes(StoredMatch(storage, p, id), p)}
        IN  (AggRanFor(p) /\ with # {}) =>
               /\ last.response.statusCode = 200
               /\ CsvKey(p) \in DOMAIN storage
               /\ Len(storage[CsvKey(p)].body.rows) = Cardinality(with)
               /\ \A n \in 1..Cardinality(with) :
                     storage[CsvKey(p)].body.rows[n][1] = Ascending(with)[n]
               /\ storage[CsvKey(p)].body.header =
                     DictKeys(last.response.body.stats[1])

\* C4 (as stated): an aggregation for p that finds no object under
\* users/p/matches/, or objects none of which yields statistics for p, answers
\* 404 and writes nothing: every key keeps its content.
C4_AsStated ==
    [][\A p \in Puuids :
          ( /\ last'.handler = "aggregation"
            /\ last'.request.kind = "object"
            /\ TrimsTo(last'.request.body.puuid, p)
            /\ NoFault(last'.calls)
            /\ \A id \in StoredIds(storage, p) :
                  ~Whole(StoredMatch(storage, p, id), p, AggPlayerRequired) )
          => ( /\ last'.response.statusCode = 404
               /\ PutsAt(last'.calls) = {}
               /\ storage' = storage )]_vars

\* the list the upstream returned to the latest ingestion (<<>> when the
\* match-list lookup was not reached or did not succeed)
ListedIds ==
    IF \E i \in 1..Len(last.calls) :
          /\ last.calls[i].svc = "riot"
          /\ last.calls[i].arg.api = "matchlist"
          /\ last.calls[i].status = 200
    THEN last.calls[CHOOSE i \in 1..Len(last.calls) :
                       /\ last.calls[i].svc = "riot"
                       /\ last.calls[i].arg.api = "matchlist"].reply
    ELSE <<>>

\* the latest invocation is an ingestion whose account, summoner and
\* match-list lookups succeeded, and no storage write of which raised
Listed ==
    /\ Ran("ingestion")
    /\ NoFault(last.calls)
    /\ \E i \in 1..Len(last.calls) :
          /\ last.calls[i].svc = "riot"
          /\ last.calls[i].arg.api = "matchlist"
          /\ last.calls[i].status = 200

\* the stable ID the latest ingestion resolved
ResolvedPuuid ==
    last.calls[CHOOSE i \in 1..Len(last.calls) :
                  /\ last.calls[i].svc = "riot"
                  /\ last.calls[i].arg.api = "matchlist"].arg.arg

\* the positions of the fetches of match m among the calls
FetchesAt(m) ==
    {i \in 1..Len(last.calls) :
        /\ last.calls[i].svc = "riot"
        /\ last.calls[i].arg.api = "match"
        /\ last.calls[i].arg.arg = m}

\* the fetch of match m was made and returned success
Fetched(m) == \E i \in FetchesAt(m) : last.calls[i].status = 200

\* the positions of the writes of match m's object among the calls
WritesAt(m) ==
    {i \in PutsAt(last.calls) :
        last.calls[i].arg = [puuid |-> ResolvedPuuid, kind |-> "match", id |-> m]}

\* C5 (as stated): a record in which the player is present but a required
\* field is missing fails only that match, in the aggregation as in the
\* ingestion: it is skipped, the other matches are processed and the request
\* succeeds with their results.
C5_AsStated ==
    /\ \A p \in Puuids :
          LET ids == StoredIds(storage, p)
              whole == {id \in ids :
                          Whole(StoredMatch(storage, p, id), p, AggPlayerRequired)}
          IN  ( /\ AggRanFor(p)
                /\ whole # {}
                /\ \E id \in ids :
                      Broken(StoredMatch(storage, p, id), p, AggPlayerRequired) )
              => /\ last.response.statusCode = 200
                 /\ last.response.body.matchesProcessed = Cardinality(whole)
    /\ ( /\ Listed
         /\ \E n \in 1..Len(ListedIds) :
               /\ Fetched(ListedIds[n])
               /\ Broken(UpstreamMatch(ListedIds[n]), ResolvedPuuid,
                         IngestPlayerRequired) )
       => /\ last.response.statusCode = 200
          /\ \A n \in 1..Len(ListedIds) : FetchesAt(ListedIds[n]) # {}
          /\ last.response.body.matchesProcessed =
                Cardinality({n \in 1..Len(ListedIds) :
                                /\ Fetched(ListedIds[n])
                                /\ Whole(UpstreamMatch(ListedIds[n]), ResolvedPuuid,
                                         IngestPlayerRequired)})

(***************************************************************************)
(* C6, C7: responses                                                       *)
(***************************************************************************)
\* C6 (as stated): every response carries a status code among 200, 400, 403,
\* 404 and 500 and a structured body, whatever the request and whatever the
\* collaborators answered.
C6_AsStated ==
    ~Ran("none") =>
        /\ last.response.statusCode \in {200, 400, 403, 404, 500}
        /\ DOMAIN last.response.body # {}

\* the positions of the lookups (account, summoner, match list) of the latest
\* ingestion that the upstream answered with a status other than 200
FailedLookupsAt ==
    {i \in 1..Len(last.calls) :
        /\ last.calls[i].svc = "riot"
        /\ last.calls[i].arg.api \in {"account", "summoner", "matchlist"}
        /\ last.calls[i].status # 200}

\* C7 (as stated): for each lookup of the ingestion (account, summoner, match
\* list), an upstream 404 is answered 404, an upstream 403 is answered 403 with
\* a remediation hint, and any other failure is answered with an error that
\* carries the upstream status and body.
C7_AsStated ==
    Ran("ingestion") =>
        \A i \in FailedLookupsAt :
            LET c == last.calls[i]
                body == last.response.body
            IN  /\ c.status = 404 => last.response.statusCode = 404
                /\ c.status = 403 =>
                      /\ last.response.statusCode = 403
                      /\ "hint" \in DOMAIN body
                /\ c.status \notin {403, 404} =>
                      /\ Len(body.error) = 2
                      /\ body.error[2] = c.status
                      /\ "detail" \in DOMAIN body
                      /\ body.detail = <<"body", c.arg.api, c.status>>

(***************************************************************************)
(* C8, C9: ingestion                                                       *)
(***************************************************************************)
\* the listed matches that were fetched and whose record holds the player
\* with every field the extraction reads
Extracted ==
    {n \in 1..Len(ListedIds) :
        /\ Fetched(ListedIds[n])
        /\ Whole(UpstreamMatch(ListedIds[n]), ResolvedPuuid, IngestPlayerRequired)}

\* what C8 says of an ingestion whose lookups succeeded
WritesPerFetch ==
    /\ last.response.statusCode = 200
    /\ \A n \in 1..Len(ListedIds) :
          /\ Cardinality(FetchesAt(ListedIds[n])) = 1
          /\ Cardinality(WritesAt(ListedIds[n])) =
                (IF Fetched(ListedIds[n]) THEN 1 ELSE 0)
          /\ Fetched(ListedIds[n]) =>
                storage[[puuid |-> ResolvedPuuid, kind |-> "match",
                         id |-> ListedIds[n]]].body = UpstreamMatch(ListedIds[n])
    /\ \A i \in PutsAt(last.calls) :
          last.calls[i].arg.kind = "match" =>
              \E n \in 1..Len(ListedIds) : i \in WritesAt(ListedIds[n])
    /\ last.response.body.matchesProcessed = Cardinality(Extracted)

\* C8 (as stated): an ingestion whose account, summoner and match-list
\* lookups succeed with k match IDs answers 200, writes exactly one match
\* object per ID whose fetch succeeded and none for a failed one, and reports
\* matchesProcessed = the number of fetched matches that yielded statistics,
\* which is k when all k fetches succeed and every record contains the player;
\* a failed fetch does not stop the later ones.
C8_AsStated ==
    Listed =>
        /\ WritesPerFetch
        /\ (\A n \in 1..Len(ListedIds) :
               /\ Fetched(ListedIds[n])
               /\ Includes(UpstreamMatch(ListedIds[n]), ResolvedPuuid))
           => last.response.body.matchesProcessed = Len(ListedIds)

\* C8 (amended): the same for k >= 1 (an empty list is answered 404), with
\* matchesProcessed = k when all k fetches succeed and every record holds the
\* player with all the fields the extraction reads.
C8_Ingestion ==
    (Listed /\ Len(ListedIds) >= 1) =>
        /\ WritesPerFetch
        /\ (\A n \in 1..Len(ListedIds) :
               /\ Fetched(ListedIds[n])
               /\ Whole(UpstreamMatch(ListedIds[n]), ResolvedPuuid,
                        IngestPlayerRequired))
           => last.response.body.matchesProcessed = Len(ListedIds)

\* C8 witness: of two listed matches the first fetch failed and the second
\* was fetched, written and counted
C8_Witness ==
    /\ Listed
    /\ Len(ListedIds) = 2
    /\ ~Fetched(ListedIds[1])
    /\ Fetched(ListedIds[2])
    /\ WritesAt(ListedIds[2]) # {}
    /\ last.response.statusCode = 200
    /\ last.response.body.matchesProcessed = 1

\* the keys an ingestion with these calls wrote
WrittenKeys(calls) == {calls[i].arg : i \in PutsAt(calls)}

\* the keys C9 expects of a run with these calls: the profile of the resolved
\* player and one match object per match fetched with success
ExpectedKeys(calls) ==
    UNION {{[puuid |-> calls[i].arg.arg, kind |-> "profile", id |-> 0]} :
              i \in {j \in 1..Len(calls) :
                        /\ calls[j].svc = "riot"
                        /\ calls[j].arg.api = "summoner"
                        /\ calls[j].status = 200}}
    \cup {[puuid |-> k.puuid, kind |-> "match", id |-> calls[i].arg.arg] :
             i \in {j \in 1..Len(calls) :
                       /\ calls[j].svc = "riot"
                       /\ calls[j].arg.api = "match"
                       /\ calls[j].status = 200},
             k \in {calls[j].arg : j \in {x \in PutsAt(calls) :
                                            calls[x].arg.kind = "profile"}}}

\* C9: an ingestion that repeats the invocation before it (the same request,
\* the same upstream answers, no storage failure) leaves the key set as the
\* first run left it; it writes the profile and one object per fetched match,
\* each once, each holding what the second run wrote, and creates no key.
C9_Rerun ==
    [][(rerun' /\ NoFault(last'.calls)) =>
          /\ DOMAIN storage' = DOMAIN storage
          /\ WrittenKeys(last'.calls) = ExpectedKeys(last'.calls)
          /\ Cardinality(PutsAt(last'.calls)) = Cardinality(ExpectedKeys(last'.calls))
          /\ \A k \in WrittenKeys(last'.calls) :
                /\ k \in DOMAIN storage'
                /\ k.kind = "profile" =>
                      /\ now' = now + 1
                      /\ storage'[k].body.lastUpdated = now'
                /\ k.kind = "match" => storage'[k].body = UpstreamMatch(k.id)
          /\ \A k \in DOMAIN storage' \ WrittenKeys(last'.calls) :
                storage'[k] = storage[k]]_vars

\* C9 witness: a second identical run has rewritten the profile and a match
C9_Witness ==
    /\ rerun
    /\ Ran("ingestion")
    /\ last.response.statusCode = 200
    /\ \E i \in PutsAt(last.calls) : last.calls[i].arg.kind = "match"
    /\ now = 2
    /\ \E k \in DOMAIN storage : k.kind = "profile" /\ storage[k].body.lastUpdated = 2

(***************************************************************************)
(* C10: question answering                                                 *)
(***************************************************************************)
\* the latest invocation is a well-formed question about p whose storage
\* read was answered
AskedAbout(p) ==
    /\ Ran("query")
    /\ last.request.kind = "object"
    /\ TrimsTo(last.request.body.puuid, p)
    /\ last.request.body.question.kind = "str"
    /\ ~Blank(last.request.body.question)
    /\ NoFault(<<last.calls[1]>>)

ModelCallsAt ==
    IF Ran("none") THEN {}
    ELSE {i \in 1..Len(last.calls) : last.calls[i].svc = "bedrock"}

\* a question about p asked while p's aggregate file does not exist is
\* answered 404 with the hint to run the aggregation, and the model is not
\* invoked
NoFileNoAnswer ==
    \A p \in Puuids :
        ( /\ AskedAbout(p)
          /\ [puuid |-> p, kind |-> "csv", id |-> 0] \notin DOMAIN storage )
        => /\ last.response.statusCode = 404
           /\ "hint" \in DOMAIN last.response.body
           /\ ModelCallsAt = {}

\* the model is invoked only by a question, after the aggregate file of the
\* asked player has been read, and on that file's content
ModelAfterRead ==
    \A i \in ModelCallsAt :
        /\ Ran("query")
        /\ \E j \in 1..(i - 1) :
              /\ last.calls[j].svc = "s3"
              /\ last.calls[j].op = "get_object"
              /\ last.calls[j].status = 200
              /\ last.calls[j].arg.kind = "csv"
              /\ TrimsTo(last.request.body.puuid, last.calls[j].arg.puuid)
              /\ last.calls[j].arg \in DOMAIN storage
              /\ last.calls[i].arg.csv = storage[last.calls[j].arg].body

\* the aggregate file of p comes to exist only through an aggregation for p
\* that answered 200
FileOnlyByAggregation ==
    \A p \in Puuids :
        ( /\ [puuid |-> p, kind |-> "csv", id |-> 0] \in DOMAIN storage'
          /\ [puuid |-> p, kind |-> "csv", id |-> 0] \notin DOMAIN storage )
        => /\ last'.handler = "aggregation"
           /\ last'.response.statusCode = 200
           /\ TrimsTo(last'.request.body.puuid, p)

\* C10: in every sequence of invocations, a question about p asked while
\* users/p/processed/match_stats.csv does not exist (no aggregation for p has
\* succeeded yet) is answered 404 with the hint to aggregate first and without
\* invoking the model; the model is invoked only after p's aggregate file has
\* been read.
C10_Query ==
    /\ [](NoFileNoAnswer /\ ModelAfterRead)
    /\ [][FileOnlyByAggregation]_vars

\* C10 witness: P1 has been ingested but not aggregated, and a question
\* about P1 has been answered 404 without a model call
C10_Witness ==
    /\ AskedAbout(P1)
    /\ StoredIds(storage, P1) # {}
    /\ [puuid |-> P1, kind |-> "csv", id |-> 0] \notin DOMAIN storage
    /\ last.response.statusCode = 404
    /\ ModelCallsAt = {}

(***************************************************************************)
(* C11: region routing as a function of the region code.  Each call takes  *)
(* a region and returns the pair the handler computes at its lines 70-71;  *)
(* xin keeps the regions passed so far and xout the pairs returned.        *)
(***************************************************************************)
\* the keys of routing_map (the same sixteen in both tables)
RoutingKeys ==
    {"na1", "br1", "la1", "la2", "oc1", "euw1", "eun1", "tr1", "ru",
     "kr", "jp1", "ph2", "sg2", "th2", "tw2", "vn2"}

\* region codes passed to the routing: every key, and codes that are no key
\* (other case, padded, truncated, empty, unheard of)
RegionInputs == RoutingKeys \cup {"", "NA1", " na1", "oc", "euw", "xx9"}

InitRouting ==
    /\ storage = <<>>
    /\ now = 0
    /\ last = [handler |-> "none"]
    /\ rerun = FALSE
    /\ xin = <<>>
    /\ xout = <<>>

\* account_routing = get_account_routing(region);
\* match_routing = get_match_routing(region)
RouteRegion ==
    /\ Len(xin) < MaxCalls
    /\ \E region \in RegionInputs :
          /\ xin' = Append(xin, region)
          /\ xout' = Append(xout, <<get_account_routing(region),
                                    get_match_routing(region)>>)
    /\ UNCHANGED <<storage, now, last, rerun>>

NextRouting == RouteRegion

SpecRouting == InitRouting /\ [][NextRouting]_vars

\* C11: the same region code always yields the same pair (account routing,
\* match routing), whatever was routed before, and every region code that is
\* no key of the tables yields 'americas' for both.
C11_Routing ==
    /\ Len(xout) = Len(xin)
    /\ \A i, j \in 1..Len(xin) : xin[i] = xin[j] => xout[i] = xout[j]
    /\ \A i \in 1..Len(xin) :
          xin[i] \notin {"na1", "br1", "la1", "la2", "oc1", "euw1", "eun1",
                         "tr1", "ru", "kr", "jp1", "ph2", "sg2", "th2",
                         "tw2", "vn2"}
          => xout[i] = <<"americas", "americas">>

\* C11 witness: a region code that is no key of the tables ('NA1', the key
\* in other case) was routed twice and got the default pair both times
C11_Witness ==
    /\ Len(xin) = 2
    /\ xin[1] = "NA1"
    /\ xin[2] = "NA1"
    /\ xout[1] = <<"americas", "americas">>
    /\ xout[2] = xout[1]

(***************************************************************************)
(* C12: the order of the steps of one ingestion                            *)
(***************************************************************************)
\* a call of the ingestion as a step: the lookups, the profile write, and
\* for match m its fetch and its write (the read of the API key, which comes
\* before them all, is <<"key", 0>>)
StepOf(c) ==
    IF c.svc = "riot"
    THEN IF c.arg.api = "match" THEN <<"fetch", c.arg.arg>> ELSE <<c.arg.api, 0>>
    ELSE IF c.svc = "s3"
    THEN IF c.arg.kind = "match" THEN <<"write", c.arg.id>> ELSE <<c.arg.kind, 0>>
    ELSE <<"key", 0>>

\* the steps of the latest invocation after the read of the API key, in the
\* order they were made
Steps ==
    IF Ran("none") THEN <<>>
    ELSE LET made == SelectSeq(last.calls, LAMBDA c : c.svc # "ssm")
         IN  [i \in 1..Len(made) |-> StepOf(made[i])]

\* the lookups and the profile write, in the order of the claim
Lookups == <<<<"account", 0>>, <<"summoner", 0>>, <<"profile", 0>>, <<"matchlist", 0>>>>

\* for each ID of the list in order: its fetch, then its write; with
\* always = FALSE the write follows a fetch that returned success only
RECURSIVE PerMatch(_, _)
PerMatch(match_ids, always) ==
    IF match_ids = <<>> THEN <<>>
    ELSE <<<<"fetch", Head(match_ids)>>>>
         \o (IF always \/ Fetched(Head(match_ids))
             THEN <<<<"write", Head(match_ids)>>>> ELSE <<>>)
         \o PerMatch(Tail(match_ids), always)

IsPrefix(s, t) == Len(s) <= Len(t) /\ SubSeq(t, 1, Len(s)) = s

\* a failed account or summoner lookup is the last call of the request, and
\* the request has written nothing
FailedLookupEnds ==
    \A i \in 1..Len(last.calls) :
        ( /\ last.calls[i].svc = "riot"
          /\ last.calls[i].arg.api \in {"account", "summoner"}
          /\ last.calls[i].status # 200 )
        => /\ i = Len(last.calls)
           /\ PutsAt(last.calls) = {}

\* C12 (as stated): the steps of one ingestion are the account lookup, the
\* summoner lookup, the profile write, the match-list lookup, then for each
\* listed ID in list order one fetch followed by that match's write; a failed
\* account or summoner lookup ends the request with no storage write and no
\* later upstream call.
C12_AsStated ==
    Ran("ingestion") =>
        /\ IsPrefix(Steps, Lookups \o PerMatch(ListedIds, TRUE))
        /\ Listed => Steps = Lookups \o PerMatch(ListedIds, TRUE)
        /\ FailedLookupEnds

\* C12 (amended): the same order, where the write of a match follows its
\* fetch when the fetch returned success, and a match whose fetch failed has
\* its fetch only.
C12_Order ==
    Ran("ingestion") =>
        /\ IsPrefix(Steps, Lookups \o PerMatch(ListedIds, FALSE))
        /\ Listed => Steps = Lookups \o PerMatch(ListedIds, FALSE)
        /\ FailedLookupEnds

\* C12 witness: an ingestion over two listed matches went through all its
\* steps, the fetch of the first match having failed
C12_Witness ==
    /\ Listed
    /\ Len(ListedIds) = 2
    /\ Steps = Lookups \o <<<<"fetch", ListedIds[1]>>, <<"fetch", ListedIds[2]>>,
                            <<"write", ListedIds[2]>>>>

=============================================================================
